---- MODULE Spec2Model ----
(***************************************************************************)
(* apistar-websocket: the WebSocket session handle (connect / send /       *)
(* receive / close / is_open) and the WebSocketAutoHook lifecycle hook of  *)
(* src/apistar_websocket/websocket.py, as a state machine.                 *)
(*                                                                         *)
(* Three specifications share the same translation of the methods:        *)
(*   Spec       the request pipeline: on_request, the handler's calls,     *)
(*              on_response / on_error, with the transport closing under   *)
(*              it at any moment, over channels that do not fail;          *)
(*   SpecFaults the same pipeline over channels whose every await may      *)
(*              raise;                                                     *)
(*   SpecCalls  a caller invoking the handle's methods directly, over the  *)
(*              whole argument space of each method.                       *)
(***************************************************************************)
EXTENDS Integers, Sequences, FiniteSets, TLC

VARIABLES
    scope,      \* asgi_scope['type'] of the request
    wsRequest,  \* what asgi_send.__self__ exposes: "state", "protocol" or "none"
    transport,  \* websockets.protocol.State of the underlying connection
    inbound,    \* messages asgi_receive has delivered so far, in order
    outbound,   \* messages handed to asgi_send so far, in order
    pc,         \* the pipeline's position
    response,   \* the Response handed to on_response / on_error
    opsLeft,    \* calls the handler (or the direct caller) may still make
    trace,      \* one event per hook invocation or handle method call
    channel     \* "reliable", or "failing": asgi_receive / asgi_send may raise

vars ==
    <<scope, wsRequest, transport, inbound, outbound, pc, response, opsLeft, trace, channel>>

(***************************************************************************)
(* Bounds                                                                  *)
(***************************************************************************)
MaxHandlerOps == 2
MaxCalls == 1
MaxFaultOps == 1

(***************************************************************************)
(* Python values: None, str, bytes, int, and one value of another type.    *)
(***************************************************************************)
None == [kind |-> "none", s |-> "", n |-> 0]
Str(x) == [kind |-> "str", s |-> x, n |-> 0]
Bytes(x) == [kind |-> "bytes", s |-> x, n |-> 0]
PyInt(k) == [kind |-> "int", s |-> "", n |-> k]
Other == [kind |-> "list", s |-> "[1]", n |-> 0]

\* Python truthiness, as `if data:` evaluates it
Truthy(v) ==
    CASE v.kind = "none" -> FALSE
      [] v.kind \in {"str", "bytes"} -> v.s # ""
      [] v.kind = "int" -> v.n # 0
      [] OTHER -> TRUE

(***************************************************************************)
(* Python dicts: functions from a finite set of keys                       *)
(***************************************************************************)
EmptyDict == [k \in {} |-> None]
Dict1(k, v) == [x \in {k} |-> v]
\* d[k] = v
SetItem(d, k, v) == [x \in DOMAIN d \cup {k} |-> IF x = k THEN v ELSE d[x]]
\* d.update(e)
Update(d, e) == [x \in DOMAIN d \cup DOMAIN e |-> IF x \in DOMAIN e THEN e[x] ELSE d[x]]
\* d.get(k, default)
Get(d, k, default) == IF k \in DOMAIN d THEN d[k] ELSE default

(***************************************************************************)
(* Status codes and exceptions                                             *)
(***************************************************************************)
OK == 1000
LEAVING == 1001
PROT_ERROR == 1002

NoExc == [cls |-> "none", detail |-> "", status_code |-> 0]
\* HTTPException.__init__(detail, status_code)
HTTPException(cls, detail, status_code) ==
    [cls |-> cls, detail |-> detail, status_code |-> status_code]
WebSocketProtocolError(detail) ==
    HTTPException("WebSocketProtocolError", detail, PROT_ERROR)
\* WebSocketClosed.__init__(detail, status_code): super().__init__(detail, 200)
WebSocketClosed(detail, status_code) ==
    HTTPException("WebSocketClosed", detail, 200)
AttributeError == [cls |-> "AttributeError", detail |-> "", status_code |-> 0]
\* whatever asgi_receive ("receive") or asgi_send ("send") raises when it fails
ChannelError(at) == [cls |-> "ChannelError", detail |-> at, status_code |-> 0]

(***************************************************************************)
(* Message types                                                           *)
(***************************************************************************)
T_CONNECT == "websocket.connect"
T_ACCEPT == "websocket.accept"
T_SEND == "websocket.send"
T_RECEIVE == "websocket.receive"
T_DISCONNECT == "websocket.disconnect"

(***************************************************************************)
(* WebSocket: the methods.  Each yields [exc, ret, tx]: the exception it   *)
(* raises (NoExc if none), its return value, and the messages it hands to  *)
(* asgi_send, in order.  `msg` is what its asgi_receive call returned.     *)
(***************************************************************************)
send_kwargs_last(data, kwargs) ==
    LET base == Dict1("type", Str(T_SEND))
        withData ==
            IF Truthy(data)
            THEN IF data.kind = "str" THEN SetItem(base, "text", data)
                 ELSE IF data.kind = "bytes" THEN SetItem(base, "bytes", data)
                 ELSE base
            ELSE base
    IN [exc |-> NoExc, ret |-> None, tx |-> << Update(withData, kwargs) >>]

send_type_last(data, kwargs) ==
    LET msg1 == kwargs
        msg2 ==
            IF Truthy(data)
            THEN IF data.kind = "str" THEN SetItem(msg1, "text", data)
                 ELSE IF data.kind = "bytes" THEN SetItem(msg1, "bytes", data)
                 ELSE msg1
            ELSE msg1
    IN [exc |-> NoExc, ret |-> None, tx |-> << SetItem(msg2, "type", Str(T_SEND)) >>]

send(data, kwargs) ==
    LET msg0 == Dict1("type", Str(T_SEND))
        msg1 == Update(msg0, kwargs)
        msg2 ==
            IF Truthy(data)
            THEN IF data.kind = "str" THEN SetItem(msg1, "text", data)
                 ELSE IF data.kind = "bytes" THEN SetItem(msg1, "bytes", data)
                 ELSE msg1
            ELSE msg1
    IN [exc |-> NoExc, ret |-> None, tx |-> << msg2 >>]

receive_or(msg) ==
    LET t == Get(msg, "text", None)
    IN [exc |-> NoExc, tx |-> << >>,
        ret |-> IF Truthy(t) THEN t ELSE Get(msg, "bytes", None)]

receive_acknowledged(msg) ==
    [exc |-> NoExc, tx |-> << Dict1("type", Str(T_SEND)) >>,
     ret |-> Get(msg, "text", Get(msg, "bytes", None))]

receive(msg) ==
    [exc |-> NoExc, tx |-> << >>,
     ret |-> Get(msg, "text", Get(msg, "bytes", None))]

connect_accept_first(msg) ==
    IF msg["type"] # Str(T_CONNECT)
    THEN [exc |-> WebSocketProtocolError(
                      "Expected websocket connection but got: " \o msg["type"].s),
          ret |-> None, tx |-> << Dict1("type", Str(T_ACCEPT)) >>]
    ELSE [exc |-> NoExc, ret |-> None, tx |-> << Dict1("type", Str(T_ACCEPT)) >>]

connect_twice(msg) ==
    IF msg["type"] # Str(T_CONNECT)
    THEN [exc |-> WebSocketProtocolError(
                      "Expected websocket connection but got: " \o msg["type"].s),
          ret |-> None, tx |-> << >>]
    ELSE [exc |-> NoExc, ret |-> None,
          tx |-> << Dict1("type", Str(T_ACCEPT)), Dict1("type", Str(T_ACCEPT)) >>]

connect_rejecting_with_close(msg) ==
    IF msg["type"] # Str(T_CONNECT)
    THEN [exc |-> WebSocketProtocolError(
                      "Expected websocket connection but got: " \o msg["type"].s),
          ret |-> None,
          tx |-> << SetItem(Dict1("type", Str(T_DISCONNECT)), "code", PyInt(PROT_ERROR)) >>]
    ELSE [exc |-> NoExc, ret |-> None, tx |-> << Dict1("type", Str(T_ACCEPT)) >>]

connect(msg) ==
    IF msg["type"] # Str(T_CONNECT)
    THEN [exc |-> WebSocketProtocolError(
                      "Expected websocket connection but got: " \o msg["type"].s),
          ret |-> None, tx |-> << >>]
    ELSE [exc |-> NoExc, ret |-> None, tx |-> << Dict1("type", Str(T_ACCEPT)) >>]

\* the `code` argument of a close() call that names none
NoCode == 0

CodeOrDefault_leaving(arg) == IF arg = NoCode THEN LEAVING ELSE arg

\* `code: int = Status.OK.value`: the status code close() runs with
CodeOrDefault(arg) == IF arg = NoCode THEN OK ELSE arg

close_as_accept(code, data) ==
    [exc |-> NoExc, ret |-> None, tx |-> << Dict1("type", Str(T_ACCEPT)) >>]

close(code, data) ==
    LET message0 == SetItem(Dict1("type", Str(T_DISCONNECT)), "code", PyInt(code))
        message1 ==
            IF Truthy(data)
            THEN IF data.kind = "str" THEN SetItem(message0, "text", data)
                 ELSE IF data.kind = "bytes" THEN SetItem(message0, "bytes", data)
                 ELSE message0
            ELSE message0
    IN [exc |-> NoExc, ret |-> None, tx |-> << message1 >>]

\* WebSocket.state: _ws_request.state, else _ws_request.protocol.state;
\* with _ws_request None (or exposing neither) the attribute lookup fails
state ==
    IF wsRequest = "state" THEN [exc |-> NoExc, val |-> transport]
    ELSE IF wsRequest = "protocol" THEN [exc |-> NoExc, val |-> transport]
    ELSE [exc |-> AttributeError, val |-> ""]

is_open_not_closed ==
    IF state.exc # NoExc THEN "AttributeError"
    ELSE IF state.val # "CLOSED" THEN "True" ELSE "False"

\* WebSocket.is_open, as observed by the caller: "True", "False", or the
\* AttributeError the state lookup raised
is_open ==
    IF state.exc # NoExc THEN "AttributeError"
    ELSE IF state.val = "OPEN" THEN "True" ELSE "False"

(***************************************************************************)
(* The messages the server runtime delivers, and the arguments callers     *)
(* pass.  InMsgs: a connect message, a data message for every combination  *)
(* of absent / null / present `text` and `bytes`, and a disconnect.        *)
(***************************************************************************)
ConnectMsg == Dict1("type", Str(T_CONNECT))
DisconnectMsg == SetItem(Dict1("type", Str(T_DISCONNECT)), "code", PyInt(LEAVING))
TextFields == {EmptyDict, Dict1("text", None), Dict1("text", Str("hi"))}
BytesFields == {EmptyDict, Dict1("bytes", None), Dict1("bytes", Bytes("x"))}
DataMsgs ==
    {Update(Update(Dict1("type", Str(T_RECEIVE)), t), b) : t \in TextFields, b \in BytesFields}
InMsgs == {ConnectMsg, DisconnectMsg} \cup DataMsgs
\* the messages the pipeline runs are explored with
WireMsgs ==
    {ConnectMsg, DisconnectMsg, SetItem(Dict1("type", Str(T_RECEIVE)), "text", Str("hi"))}

Payloads == {None, Str(""), Str("hi"), Bytes(""), Bytes("x"), Other}
Kwargs ==
    {EmptyDict, Dict1("text", Str("k")), Dict1("bytes", Bytes("k")), Dict1("type", Str("custom")),
     Dict1("code", PyInt(LEAVING))}
Codes == {NoCode, OK, LEAVING}
\* what the handler passes in the pipeline runs
HandlerPayloads == {Str("hi"), Bytes("x")}
\* the close() calls the handler makes: close() and close(1001, "bye")
HandlerCloseArgs ==
    {[code |-> NoCode, data |-> None], [code |-> LEAVING, data |-> Str("bye")]}

NoResponse == [present |-> FALSE, content |-> None]
Response(content) == [present |-> TRUE, content |-> content]
Responses == {NoResponse, Response(Bytes("")), Response(Bytes("ok"))}

(***************************************************************************)
(* The underlying transport (server runtime): how its state answers to the *)
(* messages it is handed.                                                  *)
(***************************************************************************)
States == {"CONNECTING", "OPEN", "CLOSING", "CLOSED"}

TransportOnSend(st, m) ==
    IF m["type"] = Str(T_ACCEPT) /\ st = "CONNECTING" THEN "OPEN"
    ELSE IF m["type"] = Str(T_DISCONNECT) /\ st # "CLOSED" THEN "CLOSED"
    ELSE st

RECURSIVE TransportAfter(_, _)
TransportAfter(st, msgs) ==
    IF msgs = << >> THEN st
    ELSE TransportAfter(TransportOnSend(st, Head(msgs)), Tail(msgs))

(***************************************************************************)
(* One call: the channels, the transport and the trace after it.  The      *)
(* event keeps the transport state the call found (before) and the         *)
(* Response the pipeline held at that moment (resp).                       *)
(***************************************************************************)
NoCall == [exc |-> NoExc, ret |-> None, tx |-> << >>]
Raise(e) == [exc |-> e, ret |-> None, tx |-> << >>]

\* The channel failures a call can meet: the methods await asgi_receive
\* first (connect, receive) and asgi_send last (connect, send, close).
Faults(rx, r) ==
    IF channel = "failing"
    THEN {"none"} \cup (IF rx # << >> THEN {"receive"} ELSE {})
                  \cup (IF r.tx # << >> THEN {"send"} ELSE {})
    ELSE {"none"}

OverChannel_swallowed(fault, rx, r) ==
    IF fault = "receive"
    THEN [exc |-> NoExc, ret |-> None, tx |-> << >>, rx |-> << >>, fault |-> fault]
    ELSE IF fault = "send"
    THEN [exc |-> NoExc, ret |-> None, tx |-> << >>, rx |-> rx, fault |-> fault]
    ELSE [exc |-> r.exc, ret |-> r.ret, tx |-> r.tx, rx |-> rx, fault |-> fault]

\* A method run over the channels.  No await of asgi_receive or asgi_send
\* sits in a try block: a raising asgi_receive ends the method before it
\* has a message, a raising asgi_send ends it with the message not sent.
OverChannel(fault, rx, r) ==
    IF fault = "receive"
    THEN [exc |-> ChannelError("receive"), ret |-> None, tx |-> << >>, rx |-> << >>,
          fault |-> fault]
    ELSE IF fault = "send"
    THEN [exc |-> ChannelError("send"), ret |-> None, tx |-> << >>, rx |-> rx,
          fault |-> fault]
    ELSE [exc |-> r.exc, ret |-> r.ret, tx |-> r.tx, rx |-> rx, fault |-> fault]

Event(by, op, data, kwargs, code, rx, r, open) ==
    [by |-> by, op |-> op, data |-> data, kwargs |-> kwargs, code |-> code,
     rx |-> rx, exc |-> r.exc, ret |-> r.ret, tx |-> r.tx, open |-> open,
     before |-> transport, resp |-> response, fault |-> r.fault]

Apply_newest_first(by, op, data, kwargs, code, rx, r, open) ==
    \E fault \in Faults(rx, r) :
        LET o == OverChannel(fault, rx, r) IN
        /\ inbound' = inbound \o o.rx
        /\ outbound' = o.tx \o outbound
        /\ transport' = TransportAfter(transport, o.tx)
        /\ trace' = Append(trace, Event(by, op, data, kwargs, code, o.rx, o, open))

Apply(by, op, data, kwargs, code, rx, r, open) ==
    \E fault \in Faults(rx, r) :
        LET o == OverChannel(fault, rx, r) IN
        /\ inbound' = inbound \o o.rx
        /\ outbound' = outbound \o o.tx
        /\ transport' = TransportAfter(transport, o.tx)
        /\ trace' = Append(trace, Event(by, op, data, kwargs, code, o.rx, o, open))

\* what the call just applied raised (NoExc if it returned)
Raised == trace'[Len(trace')].exc

(***************************************************************************)
(* WebSocketAutoHook: each entry point yields the call it makes (op, its   *)
(* arguments, the outcome) and what it observed of is_open ("unread" when  *)
(* the guard never evaluated it).                                          *)
(***************************************************************************)
HookStep(op, data, code, rx, r, open) ==
    [op |-> op, data |-> data, code |-> code, rx |-> rx, r |-> r, open |-> open]

on_request_any_scope(msg) ==
    HookStep("connect", None, 0, << msg >>, connect(msg), "unread")

on_request(msg) ==
    IF scope = "websocket"
    THEN HookStep("connect", None, 0, << msg >>, connect(msg), "unread")
    ELSE HookStep("none", None, 0, << >>, NoCall, "unread")

\* `response.content if response else None`
CloseData(resp) == IF resp.present THEN resp.content ELSE None

on_response_state_first(resp) ==
    IF is_open = "AttributeError"
    THEN HookStep("none", None, 0, << >>, Raise(AttributeError), is_open)
    ELSE IF scope = "websocket" /\ is_open = "True"
         THEN HookStep("close", CloseData(resp), NoCode, << >>,
                       close(CodeOrDefault(NoCode), CloseData(resp)), is_open)
         ELSE HookStep("none", None, 0, << >>, NoCall, is_open)

on_response(resp) ==
    IF scope = "websocket"
    THEN IF is_open = "AttributeError"
         THEN HookStep("none", None, 0, << >>, Raise(AttributeError), is_open)
         ELSE IF is_open = "True"
              THEN HookStep("close", CloseData(resp), NoCode, << >>,
                            close(CodeOrDefault(NoCode), CloseData(resp)), is_open)
              ELSE HookStep("none", None, 0, << >>, NoCall, is_open)
    ELSE HookStep("none", None, 0, << >>, NoCall, "unread")

on_error_unguarded(resp) ==
    IF scope = "websocket"
    THEN HookStep("close", CloseData(resp), NoCode, << >>,
                  close(CodeOrDefault(NoCode), CloseData(resp)), "unread")
    ELSE HookStep("none", None, 0, << >>, NoCall, "unread")

on_error(resp) ==
    IF scope = "websocket"
    THEN IF is_open = "AttributeError"
         THEN HookStep("none", None, 0, << >>, Raise(AttributeError), is_open)
         ELSE IF is_open = "True"
              THEN HookStep("close", CloseData(resp), NoCode, << >>,
                            close(CodeOrDefault(NoCode), CloseData(resp)), is_open)
              ELSE HookStep("none", None, 0, << >>, NoCall, is_open)
    ELSE HookStep("none", None, 0, << >>, NoCall, "unread")

ApplyHook(by, h) == Apply(by, h.op, h.data, EmptyDict, h.code, h.rx, h.r, h.open)

(***************************************************************************)
(* The request pipeline.  A transport object exposing `protocol.state`     *)
(* is read exactly as one exposing `state`; the direct-call runs start     *)
(* from all three kinds of handle.                                         *)
(***************************************************************************)
Init ==
    /\ scope \in {"websocket", "http"}
    /\ wsRequest \in {"state", "none"}
    /\ transport = "CONNECTING"
    /\ inbound = << >>
    /\ outbound = << >>
    /\ pc = "request"
    /\ response = NoResponse
    /\ opsLeft = MaxHandlerOps
    /\ trace = << >>
    /\ channel = "reliable"

\* the pipeline runs the on_request hooks; a failure takes the error path
OnRequest ==
    /\ pc = "request"
    /\ \E msg \in WireMsgs, resp \in Responses :
         LET h == on_request(msg) IN
         /\ ApplyHook("on_request", h)
         /\ IF Raised = NoExc
            THEN pc' = "handler" /\ response' = response
            ELSE pc' = "error" /\ response' = resp
    /\ UNCHANGED <<scope, wsRequest, opsLeft, channel>>

\* a call of the handler: it goes on after it, or lets its failure propagate
HandlerCall(op, data, kwargs, code, rx, r) ==
    /\ opsLeft > 0
    /\ Apply("handler", op, data, kwargs, code, rx, r, "unread")
    /\ opsLeft' = opsLeft - 1
    /\ \E caught \in BOOLEAN, resp \in Responses :
         IF Raised = NoExc \/ caught
         THEN pc' = pc /\ response' = response
         ELSE pc' = "error" /\ response' = resp
    /\ UNCHANGED <<scope, wsRequest, channel>>

HandlerConnect ==
    /\ pc = "handler"
    /\ \E msg \in WireMsgs :
         HandlerCall("connect", None, EmptyDict, 0, << msg >>, connect(msg))

HandlerSend ==
    /\ pc = "handler"
    /\ \E data \in HandlerPayloads :
         HandlerCall("send", data, EmptyDict, 0, << >>, send(data, EmptyDict))

HandlerReceive ==
    /\ pc = "handler"
    /\ \E msg \in WireMsgs :
         HandlerCall("receive", None, EmptyDict, 0, << msg >>, receive(msg))

HandlerClose ==
    /\ pc = "handler"
    /\ \E a \in HandlerCloseArgs :
         HandlerCall("close", a.data, EmptyDict, a.code, << >>,
                     close(CodeOrDefault(a.code), a.data))

HandlerReturn ==
    /\ pc = "handler"
    /\ \E resp \in Responses : response' = resp
    /\ pc' = "response"
    /\ UNCHANGED <<scope, wsRequest, transport, inbound, outbound, opsLeft, trace, channel>>

HandlerRaise ==
    /\ pc = "handler"
    /\ \E resp \in Responses : response' = resp
    /\ pc' = "error"
    /\ UNCHANGED <<scope, wsRequest, transport, inbound, outbound, opsLeft, trace, channel>>

\* on_response; if it raises, or a later stage of the pipeline does, the
\* pipeline takes the error path
OnResponse ==
    /\ pc = "response"
    /\ LET h == on_response(response) IN
       /\ ApplyHook("on_response", h)
       /\ \E laterFailure \in BOOLEAN, resp \in Responses :
            IF Raised = NoExc /\ ~laterFailure
            THEN pc' = "done" /\ response' = response
            ELSE pc' = "error" /\ response' = resp
    /\ UNCHANGED <<scope, wsRequest, opsLeft, channel>>

OnError ==
    /\ pc = "error"
    /\ ApplyHook("on_error", on_error(response))
    /\ pc' = "done"
    /\ UNCHANGED <<scope, wsRequest, response, opsLeft, channel>>

\* the peer starts, then completes, the closing handshake
PeerClose ==
    /\ transport = "OPEN"
    /\ pc # "done"
    /\ transport' = "CLOSING"
    /\ UNCHANGED <<scope, wsRequest, inbound, outbound, pc, response, opsLeft, trace, channel>>

PeerClosed ==
    /\ transport = "CLOSING"
    /\ pc # "done"
    /\ transport' = "CLOSED"
    /\ UNCHANGED <<scope, wsRequest, inbound, outbound, pc, response, opsLeft, trace, channel>>

Next ==
    \/ OnRequest
    \/ HandlerConnect
    \/ HandlerSend
    \/ HandlerReceive
    \/ HandlerClose
    \/ HandlerReturn
    \/ HandlerRaise
    \/ OnResponse
    \/ OnError
    \/ PeerClose
    \/ PeerClosed

Spec == Init /\ [][Next]_vars

(***************************************************************************)
(* The same pipeline over channels that may fail: any await of             *)
(* asgi_receive or asgi_send may raise.                                    *)
(***************************************************************************)
InitFaults ==
    /\ scope = "websocket"
    /\ wsRequest \in {"state", "none"}
    /\ transport = "CONNECTING"
    /\ inbound = << >>
    /\ outbound = << >>
    /\ pc = "request"
    /\ response = NoResponse
    /\ opsLeft = MaxFaultOps
    /\ trace = << >>
    /\ channel = "failing"

SpecFaults == InitFaults /\ [][Next]_vars

(***************************************************************************)
(* Direct calls on a handle, over the whole argument space                 *)
(***************************************************************************)
InitCalls ==
    /\ scope = "websocket"
    /\ wsRequest \in {"state", "protocol", "none"}
    /\ transport \in States
    /\ inbound = << >>
    /\ outbound = << >>
    /\ pc = "caller"
    /\ response = NoResponse
    /\ opsLeft = MaxCalls
    /\ trace = << >>
    /\ channel = "reliable"

Call(op, data, kwargs, code, rx, r, open) ==
    /\ opsLeft > 0
    /\ Apply("caller", op, data, kwargs, code, rx, r, open)
    /\ opsLeft' = opsLeft - 1
    /\ UNCHANGED <<scope, wsRequest, pc, response, channel>>

CallConnect ==
    /\ pc = "caller"
    /\ \E msg \in InMsgs :
         Call("connect", None, EmptyDict, 0, << msg >>, connect(msg), "unread")

CallSend ==
    /\ pc = "caller"
    /\ \E data \in Payloads, kwargs \in Kwargs :
         Call("send", data, kwargs, 0, << >>, send(data, kwargs), "unread")

CallReceive ==
    /\ pc = "caller"
    /\ \E msg \in InMsgs :
         Call("receive", None, EmptyDict, 0, << msg >>, receive(msg), "unread")

CallClose ==
    /\ pc = "caller"
    /\ \E code \in Codes, data \in Payloads :
         Call("close", data, EmptyDict, code, << >>, close(CodeOrDefault(code), data), "unread")

CallIsOpen ==
    /\ pc = "caller"
    /\ Call("is_open", None, EmptyDict, 0, << >>,
            IF is_open = "AttributeError" THEN Raise(AttributeError) ELSE NoCall, is_open)

\* the caller raises WebSocketClosed, with or without a status code
\* (`status_code: int = Status.OK.value`)
CallRaiseClosed ==
    /\ pc = "caller"
    /\ \E code \in Codes :
         Call("WebSocketClosed", None, EmptyDict, code, << >>,
              Raise(WebSocketClosed("WebSocket has closed", CodeOrDefault(code))), "unread")

NextCalls ==
    \/ CallConnect
    \/ CallSend
    \/ CallReceive
    \/ CallClose
    \/ CallIsOpen
    \/ CallRaiseClosed

SpecCalls == InitCalls /\ [][NextCalls]_vars

(***************************************************************************)
(* Properties                                                              *)
(***************************************************************************)
Events == {trace[i] : i \in DOMAIN trace}
Hooks == {"on_request", "on_response", "on_error"}
PostHooks == {"on_response", "on_error"}
Sends(e, t) == \E k \in DOMAIN e.tx : e.tx[k]["type"] = Str(t)
HasField(m, k) == k \in DOMAIN m

\* the payload fields of message m are exactly what payload d calls for:
\* `text` for a non-empty str, `bytes` for non-empty bytes, neither otherwise
CarriesPayload(m, d) ==
    /\ (Truthy(d) /\ d.kind = "str") =>
           HasField(m, "text") /\ m["text"] = d /\ ~HasField(m, "bytes")
    /\ (Truthy(d) /\ d.kind = "bytes") =>
           HasField(m, "bytes") /\ m["bytes"] = d /\ ~HasField(m, "text")
    /\ ~(Truthy(d) /\ d.kind \in {"str", "bytes"}) =>
           ~HasField(m, "text") /\ ~HasField(m, "bytes")

\* C1: a connect() whose inbound message is not of type "websocket.connect"
\* raises WebSocketProtocolError naming that type and hands nothing to the
\* outbound channel.
C1_RejectsWithoutAccept ==
    \A e \in Events :
        (e.op = "connect" /\ e.rx[1]["type"] # Str(T_CONNECT)) =>
            /\ e.exc.cls = "WebSocketProtocolError"
            /\ e.exc.detail = "Expected websocket connection but got: " \o e.rx[1]["type"].s
            /\ e.tx = << >>

C1_Witness ==
    /\ Len(trace) = 1
    /\ trace[1].by = "on_request"
    /\ trace[1].op = "connect"
    /\ trace[1].rx = << DisconnectMsg >>
    /\ trace[1].exc.detail = "Expected websocket connection but got: websocket.disconnect"
    /\ outbound = << >>
    /\ pc = "error"

\* C2: a connect() whose inbound message is of type "websocket.connect"
\* hands exactly one message, {type: "websocket.accept"}, to the outbound
\* channel and raises nothing.
C2_AcceptsOnce ==
    \A e \in Events :
        (e.op = "connect" /\ e.rx[1]["type"] = Str(T_CONNECT)) =>
            /\ e.exc = NoExc
            /\ e.tx = << Dict1("type", Str(T_ACCEPT)) >>

C2_Witness ==
    /\ Len(trace) = 1
    /\ trace[1].by = "on_request"
    /\ trace[1].rx = << ConnectMsg >>
    /\ outbound = << [type |-> Str(T_ACCEPT)] >>
    /\ transport = "OPEN"
    /\ pc = "handler"

\* what a post-hook's close() must look like: one call, one disconnect
\* message with the default code, carrying the content of the Response the
\* hook was given (no payload field when there is no Response or its
\* content is empty)
ClosesOnceWith(e) ==
    /\ e.op = "close"
    /\ e.exc = NoExc
    /\ Len(e.tx) = 1
    /\ e.tx[1]["type"] = Str(T_DISCONNECT)
    /\ CarriesPayload(e.tx[1], IF e.resp.present THEN e.resp.content ELSE None)

\* C3: on a "websocket" request, an on_response that finds the transport
\* OPEN issues exactly one close(), carrying the handler's response content.
C3_OnResponseClosesOpenTransport ==
    \A e \in Events :
        (e.by = "on_response" /\ scope = "websocket" /\ e.before = "OPEN") =>
            ClosesOnceWith(e)

\* C4: on a "websocket" request, an on_error that finds the transport OPEN
\* issues exactly one close() carrying the error response's content; one
\* that finds it not OPEN issues no close() and sends nothing.
C4_OnErrorClosesIffOpen ==
    \A e \in Events :
        (e.by = "on_error" /\ scope = "websocket") =>
            /\ e.before = "OPEN" => ClosesOnceWith(e)
            /\ e.before # "OPEN" => (e.op = "none" /\ e.tx = << >>)

\* C5: on a request whose scope type is not "websocket", no hook entry
\* point calls connect() or close(), consumes an inbound message or sends
\* an outbound one.
C5_HooksIdleOffWebsocket ==
    \A e \in Events :
        (e.by \in Hooks /\ scope # "websocket") =>
            /\ e.op = "none"
            /\ e.rx = << >>
            /\ e.tx = << >>
            /\ e.exc = NoExc

C5_Witness ==
    /\ scope = "http"
    /\ pc = "done"
    /\ \A h \in Hooks : \E e \in Events : e.by = h
    /\ \E e \in Events : e.by = "handler" /\ e.op = "close"

\* by the end of event i the connection is Closed (a disconnect was sent,
\* or the transport had left OPEN) or Rejected (a connect() failed on a
\* connection still pending)
ClosedOrRejectedBy(i) ==
    \/ Sends(trace[i], T_DISCONNECT)
    \/ trace[i].exc.cls = "WebSocketProtocolError" /\ trace[i].before = "CONNECTING"
    \/ trace[i].before \in {"CLOSING", "CLOSED"}

\* C6 (as claimed): once a disconnect has been sent or a connect() has been
\* rejected, no later operation sends "websocket.accept".
C6_NoAcceptAfterClosedOrRejected ==
    \A i, j \in DOMAIN trace :
        (i < j /\ ClosedOrRejectedBy(i)) => ~Sends(trace[j], T_ACCEPT)

\* C6 (amended): the Lifecycle Hook never sends "websocket.accept" on a
\* connection that is Closed or Rejected: a hook's accept is the first
\* operation of the request, on a CONNECTING transport, and no post-hook
\* ever sends one.
C6_HookNeverReopens ==
    \A j \in DOMAIN trace :
        (trace[j].by \in Hooks /\ Sends(trace[j], T_ACCEPT)) =>
            /\ trace[j].by = "on_request"
            /\ trace[j].before = "CONNECTING"
            /\ \A i \in DOMAIN trace : i < j => ~ClosedOrRejectedBy(i)

C6_Witness ==
    /\ pc = "done"
    /\ \E i, j \in DOMAIN trace :
         /\ i < j
         /\ ClosedOrRejectedBy(i)
         /\ trace[j].by \in PostHooks
         /\ trace[j].open = "False"
    /\ \E i, j \in DOMAIN trace :
         /\ i < j
         /\ Sends(trace[i], T_DISCONNECT)
         /\ trace[j].by = "handler"
         /\ Sends(trace[j], T_ACCEPT)

\* C7: on a "websocket" request whose on_request connect() succeeded, once
\* the post-hook has run the transport is not OPEN.
C7_NotOpenAfterPostHook ==
    (/\ pc = "done"
     /\ scope = "websocket"
     /\ trace[1].by = "on_request"
     /\ trace[1].exc = NoExc) => transport # "OPEN"

\* C8 (as claimed): whatever the extra fields, send() sets `text` alone for
\* a non-empty str payload, `bytes` alone for non-empty bytes, and neither
\* for an empty or absent payload.
C8_PayloadFieldsWhateverKwargs ==
    \A e \in Events :
        (e.op = "send" /\ e.data.kind \in {"none", "str", "bytes"}) =>
            Len(e.tx) = 1 /\ CarriesPayload(e.tx[1], e.data)

\* the field a payload is sent in ("" when it is sent in none)
PayloadField(d) ==
    IF Truthy(d) /\ d.kind = "str" THEN "text"
    ELSE IF Truthy(d) /\ d.kind = "bytes" THEN "bytes"
    ELSE ""

\* C8 (amended): send() sets the payload's own field (`text` for a
\* non-empty str, `bytes` for non-empty bytes) to the payload, whatever the
\* extra fields; the other payload field (both, for an empty or absent
\* payload) is set exactly when the extra fields supply it, to the value
\* they supply.  So the claim holds when the extra fields name neither
\* `text` nor `bytes`.
C8_PayloadFieldsModuloKwargs ==
    \A e \in Events :
        (e.op = "send" /\ e.data.kind \in {"none", "str", "bytes"}) =>
            /\ Len(e.tx) = 1
            /\ \A k \in {"text", "bytes"} :
                 IF k = PayloadField(e.data)
                 THEN HasField(e.tx[1], k) /\ e.tx[1][k] = e.data
                 ELSE /\ HasField(e.tx[1], k) <=> HasField(e.kwargs, k)
                      /\ HasField(e.kwargs, k) => e.tx[1][k] = e.kwargs[k]
            /\ (~HasField(e.kwargs, "text") /\ ~HasField(e.kwargs, "bytes")) =>
                   CarriesPayload(e.tx[1], e.data)

C8_Witness ==
    \E e \in Events :
        /\ e.op = "send"
        /\ e.data = Str("hi")
        /\ e.kwargs = Dict1("text", Str("k"))
        /\ e.tx = << [type |-> Str(T_SEND), text |-> Str("hi")] >>

\* C9: receive() returns the consumed message's `text` value if the message
\* has a `text` field (null included), else its `bytes` value if it has a
\* `bytes` field, else None.
C9_ReceiveTextThenBytes ==
    \A e \in Events :
        e.op = "receive" =>
            /\ Len(e.rx) = 1
            /\ e.exc = NoExc
            /\ e.tx = << >>
            /\ HasField(e.rx[1], "text") => e.ret = e.rx[1]["text"]
            /\ (~HasField(e.rx[1], "text") /\ HasField(e.rx[1], "bytes")) =>
                   e.ret = e.rx[1]["bytes"]
            /\ (~HasField(e.rx[1], "text") /\ ~HasField(e.rx[1], "bytes")) =>
                   e.ret = None

C9_Witness ==
    \E e \in Events :
         /\ e.op = "receive"
         /\ e.rx = << [type |-> Str(T_RECEIVE), text |-> None, bytes |-> Bytes("x")] >>
         /\ e.ret = None

\* C10: every is_open query that yields a value yields (transport state is
\* OPEN) as of that moment; so a post-hook that finds the transport not
\* OPEN (closed under it since the connect) issues no close().
C10_IsOpenIsLive ==
    \A e \in Events :
        /\ e.open \in {"True", "False"} => (e.open = "True" <=> e.before = "OPEN")
        /\ (e.by \in PostHooks /\ e.before # "OPEN") =>
               (e.open # "True" /\ e.op = "none" /\ e.tx = << >>)

C10_Witness ==
    /\ Len(trace) >= 2
    /\ trace[1].by = "on_request"
    /\ trace[1].exc = NoExc
    /\ \A i \in DOMAIN trace : ~Sends(trace[i], T_DISCONNECT)
    /\ \E j \in DOMAIN trace :
         /\ trace[j].by \in PostHooks
         /\ trace[j].before = "CLOSING"
         /\ trace[j].open = "False"
         /\ trace[j].op = "none"

\* how many of the first j calls of the trace handed a message to asgi_send
Sent(j) == Cardinality({i \in 1..j : trace[i].tx # << >>})
\* how many of the first j calls of the trace are connect() or receive() calls
Reads(j) == Cardinality({i \in 1..j : trace[i].op \in {"connect", "receive"}})

\* the one message a successful call of `op` with these arguments puts out
\* (extra fields aside): its type, and its payload
IsMessageOf(m, e) ==
    /\ e.op = "connect" => m = Dict1("type", Str(T_ACCEPT))
    /\ e.op = "send" =>
           (e.kwargs = EmptyDict => m["type"] = Str(T_SEND) /\ CarriesPayload(m, e.data))
    /\ e.op = "close" =>
           /\ m["type"] = Str(T_DISCONNECT)
           /\ m["code"] = PyInt(CodeOrDefault(e.code))
           /\ CarriesPayload(m, e.data)

\* C11: the outbound channel holds exactly the messages of the connect /
\* send / close calls in the order the calls were issued: each successful
\* call put out one message, carrying its own arguments, the k-th such call
\* the k-th message of the channel, and a receive or a failed call none;
\* the k-th connect / receive call took the k-th inbound message.
C11_CallOrderIsChannelOrder ==
    /\ Len(outbound) = Sent(Len(trace))
    /\ Len(inbound) = Reads(Len(trace))
    /\ \A j \in DOMAIN trace :
         LET e == trace[j] IN
         /\ (e.op \in {"connect", "send", "close"} /\ e.exc = NoExc) =>
                /\ e.tx = << outbound[Sent(j)] >>
                /\ IsMessageOf(e.tx[1], e)
         /\ (e.op \in {"receive", "none", "is_open"} \/ e.exc # NoExc) => e.tx = << >>
         /\ e.op \in {"connect", "receive"} => e.rx = << inbound[Reads(j)] >>
         /\ e.op \in {"send", "close", "none", "is_open"} => e.rx = << >>

C11_Witness ==
    /\ pc = "done"
    /\ Len(trace) = 4
    /\ trace[2].op = "send" /\ trace[2].data = Str("hi")
    /\ trace[3].op = "send" /\ trace[3].data = Bytes("x")
    /\ trace[4].by = "on_response"
    /\ outbound = << [type |-> Str(T_ACCEPT)],
                     [type |-> Str(T_SEND), text |-> Str("hi")],
                     [type |-> Str(T_SEND), bytes |-> Bytes("x")],
                     [type |-> Str(T_DISCONNECT), code |-> PyInt(OK), bytes |-> Bytes("ok")] >>

\* C12: a failure raised by asgi_receive or asgi_send during connect(),
\* send(), receive() or close() is the failure the call raises, unchanged;
\* the call puts nothing on the outbound channel and reads no further
\* message; a hook whose connect() or close() failed that way raises the
\* same failure, and the pipeline takes the error path.
C12_ChannelFailuresSurface ==
    /\ Len(outbound) = Sent(Len(trace))
    /\ \A i \in 1..Len(trace) :
         LET e == trace[i] IN
         e.fault # "none" =>
             /\ e.op \in {"connect", "send", "receive", "close"}
             /\ e.exc = ChannelError(e.fault)
             /\ e.ret = None
             /\ e.tx = << >>
             /\ e.rx = (IF e.fault = "send" /\ e.op = "connect" THEN << ConnectMsg >> ELSE << >>)
             /\ e.by \in {"on_request", "on_response"} =>
                    IF i = Len(trace) THEN pc = "error" ELSE trace[i + 1].by = "on_error"
             /\ e.by = "on_error" => i = Len(trace) /\ pc = "done"

\* the handler's send() met a failing asgi_send; then on_response's close()
\* met one too, raised it, and on_error followed: neither failed call put
\* anything on the outbound channel
C12_Witness ==
    /\ pc = "done"
    /\ \E e \in Events :
         e.by = "handler" /\ e.op = "send" /\ e.fault = "send" /\ e.exc = ChannelError("send")
    /\ \E i \in 1..Len(trace) - 1 :
         /\ trace[i].by = "on_response" /\ trace[i].op = "close" /\ trace[i].fault = "send"
         /\ trace[i].exc = ChannelError("send") /\ trace[i].tx = << >>
         /\ trace[i + 1].by = "on_error"
    /\ outbound[1] = [type |-> Str(T_ACCEPT)]

\* the payload of an inbound message: its `text` if it has the field, else
\* its `bytes`
PayloadOf(m) == IF HasField(m, "text") THEN m["text"]
                ELSE IF HasField(m, "bytes") THEN m["bytes"] ELSE None

\* C13: every connect() takes exactly one inbound message, every receive()
\* takes exactly one, sends nothing and returns the payload of the message
\* it took; the k-th of these calls takes the k-th inbound message, and no
\* other call reads.  So when the inbound sequence starts with a connect
\* message and a data message, a successful connect() leaves the accept on
\* the outbound channel and the receive() after it returns the second
\* message's payload.
C13_OneInboundMessagePerRead ==
    /\ Len(inbound) = Reads(Len(trace))
    /\ \A j \in DOMAIN trace :
         LET e == trace[j] IN
         /\ e.op \in {"connect", "receive"} => e.rx = << inbound[Reads(j)] >>
         /\ e.op \notin {"connect", "receive"} => e.rx = << >>
         /\ e.op = "receive" =>
                /\ e.tx = << >>
                /\ e.exc = NoExc
                /\ e.ret = PayloadOf(e.rx[1])
    /\ (/\ Len(trace) >= 2
        /\ trace[1].op = "connect" /\ trace[1].exc = NoExc
        /\ trace[2].op = "receive"
        /\ inbound[2]["type"] = Str(T_RECEIVE)) =>
           /\ inbound[1] = ConnectMsg
           /\ Len(outbound) >= 1 /\ outbound[1] = [type |-> Str(T_ACCEPT)]
           /\ trace[2].ret = PayloadOf(inbound[2])

C13_Witness ==
    /\ Len(trace) = 2
    /\ trace[1].by = "on_request" /\ trace[1].op = "connect" /\ trace[1].exc = NoExc
    /\ trace[2].by = "handler" /\ trace[2].op = "receive" /\ trace[2].ret = Str("hi")
    /\ inbound = << ConnectMsg, [type |-> Str(T_RECEIVE), text |-> Str("hi")] >>
    /\ outbound = << [type |-> Str(T_ACCEPT)] >>

AdapterTypes == {Str(T_ACCEPT), Str(T_SEND), Str(T_DISCONNECT)}

\* C14 (as stated): every message put on the outbound channel, whatever the
\* call and its arguments, extra fields of send() included, has a `type`
\* among accept / send / disconnect, and carries a `code` the caller did not
\* supply only if it is a disconnect message.
C14_TypeAmongThreeWhateverKwargs ==
    \A e \in Events : \A k \in DOMAIN e.tx :
        /\ e.tx[k]["type"] \in AdapterTypes
        /\ (HasField(e.tx[k], "code") /\ ~HasField(e.kwargs, "code")) =>
               e.tx[k]["type"] = Str(T_DISCONNECT)

\* C14 (amended): connect() puts out type accept and close() type
\* disconnect; send() puts out type send unless its extra fields name
\* `type`, and then the message has the caller's type.  A message has a
\* `code` exactly when it comes from close(), where it is the status code
\* of the call, or when send()'s extra fields name `code`, where it is the
\* caller's value.
C14_TypeAmongThreeModuloKwargs ==
    \A e \in Events : \A k \in DOMAIN e.tx :
        LET m == e.tx[k] IN
        /\ e.op = "connect" => m["type"] = Str(T_ACCEPT)
        /\ e.op = "close" => m["type"] = Str(T_DISCONNECT)
        /\ e.op = "send" =>
               m["type"] = (IF HasField(e.kwargs, "type") THEN e.kwargs["type"] ELSE Str(T_SEND))
        /\ ~HasField(e.kwargs, "type") => m["type"] \in AdapterTypes
        /\ HasField(m, "code") <=> (e.op = "close" \/ HasField(e.kwargs, "code"))
        /\ e.op = "close" => m["code"] = PyInt(CodeOrDefault(e.code))
        /\ HasField(e.kwargs, "code") => m["code"] = e.kwargs["code"]

C14_Witness ==
    \E e \in Events :
        /\ e.op = "send" /\ e.data = Str("hi") /\ e.kwargs = [type |-> Str("custom")]
        /\ e.tx = << [type |-> Str("custom"), text |-> Str("hi")] >>

\* C15: a close() call that names no status code sends a disconnect message
\* with code 1000, a close() call that names one sends that code unchanged,
\* and every close() the hook issues, from on_response and from on_error,
\* sends code 1000.
C15_CloseCodeDefaultsToNormal ==
    \A e \in Events :
        (e.op = "close" /\ e.exc = NoExc) =>
            /\ Len(e.tx) = 1
            /\ e.tx[1]["type"] = Str(T_DISCONNECT)
            /\ e.code = NoCode => e.tx[1]["code"] = PyInt(1000)
            /\ e.code # NoCode => e.tx[1]["code"] = PyInt(e.code)
            /\ e.by \in PostHooks => e.code = NoCode /\ e.tx[1]["code"] = PyInt(1000)

\* on the error path, on_error closed an OPEN transport with the error
\* response's content and the default code
C15_Witness ==
    /\ pc = "done"
    /\ \E e \in Events :
         /\ e.by = "on_error" /\ e.op = "close" /\ e.code = NoCode
         /\ e.tx = << [type |-> Str(T_DISCONNECT), code |-> PyInt(1000), bytes |-> Bytes("ok")] >>
    /\ \E e \in Events : e.by = "handler" /\ e.op = "send"

\* C16: a WebSocketProtocolError raised by connect() carries status code
\* 1002; a WebSocketClosed raised without a status code carries 1000, and
\* one raised with a status code carries that status code.
C16_ErrorsCarryTheirStatusCodes ==
    \A e \in Events :
        /\ (e.op = "connect" /\ e.exc.cls = "WebSocketProtocolError") =>
               e.exc.status_code = 1002
        /\ e.op = "WebSocketClosed" =>
               /\ e.exc.cls = "WebSocketClosed"
               /\ e.code = NoCode => e.exc.status_code = 1000
               /\ e.code # NoCode => e.exc.status_code = e.code

\* how many of these messages are disconnect messages
Disconnects(msgs) == Cardinality({k \in DOMAIN msgs : msgs[k]["type"] = Str(T_DISCONNECT)})
\* how many close() calls the handler has made
HandlerCloses ==
    Cardinality({i \in DOMAIN trace : trace[i].by = "handler" /\ trace[i].op = "close"})

\* C17 (as stated): whatever the handler does, at most one disconnect
\* message is put on the outbound channel in the course of a request.
C17_AtMostOneDisconnect == Disconnects(outbound) <= 1

\* C17 (amended): the hook sends a disconnect only when none was sent
\* before it in the request, by the handler or by on_response, and then
\* sends one; so a request whose handler calls close() at most once puts at
\* most one disconnect on the outbound channel, and one whose handler calls
\* close() n times puts at most n.
C17_HookSendsNoSecondDisconnect ==
    /\ \A i \in DOMAIN trace :
         (trace[i].by \in Hooks /\ Sends(trace[i], T_DISCONNECT)) =>
             /\ Disconnects(trace[i].tx) = 1
             /\ \A j \in 1..(i - 1) : ~Sends(trace[j], T_DISCONNECT)
    /\ HandlerCloses <= 1 => Disconnects(outbound) <= 1
    /\ HandlerCloses > 1 => Disconnects(outbound) <= HandlerCloses

\* the handler closed and returned; on_response found the transport not
\* open, a later hook failed, on_error found it not open either
C17_Witness ==
    /\ pc = "done"
    /\ \E i, j, k \in DOMAIN trace :
         /\ i < j /\ j < k
         /\ trace[i].by = "handler" /\ trace[i].op = "close" /\ trace[i].before = "OPEN"
         /\ trace[j].by = "on_response" /\ trace[j].open = "False" /\ trace[j].op = "none"
         /\ trace[k].by = "on_error" /\ trace[k].open = "False" /\ trace[k].op = "none"
    /\ Disconnects(outbound) = 1

\* C18: once on_request's connect() has been rejected (the first inbound
\* message is not a connect message), nothing is ever put on the outbound
\* channel for that request: the handler does not run, the transport stays
\* pending, and on_error calls no close().
C18_RejectedConnectionStaysSilent ==
    (/\ Len(trace) >= 1
     /\ trace[1].by = "on_request"
     /\ trace[1].exc.cls = "WebSocketProtocolError") =>
        /\ outbound = << >>
        /\ transport = "CONNECTING"
        /\ pc \in {"error", "done"}
        /\ \A i \in DOMAIN trace :
             /\ trace[i].tx = << >>
             /\ i > 1 => trace[i].by = "on_error" /\ trace[i].op = "none"

\* on_request met a disconnect message, on_error then read the transport
\* state, found it not open and closed nothing
C18_Witness ==
    /\ pc = "done"
    /\ Len(trace) = 2
    /\ trace[1].by = "on_request" /\ trace[1].rx = << DisconnectMsg >>
    /\ trace[1].exc.cls = "WebSocketProtocolError"
    /\ trace[2].by = "on_error" /\ trace[2].open = "False"
    /\ outbound = << >>

\* C19: a handle exists whether or not asgi_send exposes a transport
\* object; the hooks read the transport state only when the scope type is
\* "websocket", so for any other request every hook invocation completes
\* without raising and without having read it, also on a handle whose
\* transport reference is absent.
C19_StateReadOnlyOnWebsocket ==
    /\ wsRequest \in {"state", "protocol", "none"}
    /\ \A e \in Events :
         /\ e.open # "unread" => scope = "websocket" /\ e.by \in PostHooks
         /\ (e.by \in Hooks /\ scope # "websocket") => e.open = "unread" /\ e.exc = NoExc
         /\ (e.by \in PostHooks /\ scope = "websocket") => e.open # "unread"
         /\ e.exc = AttributeError => scope = "websocket" /\ wsRequest = "none"

\* an http request on a handle without transport reference went through
\* on_request, on_response and on_error
C19_Witness ==
    /\ scope = "http" /\ wsRequest = "none" /\ pc = "done"
    /\ Len(trace) = 3
    /\ trace[1].by = "on_request" /\ trace[2].by = "on_response" /\ trace[3].by = "on_error"
    /\ \A i \in 1..3 : trace[i].exc = NoExc /\ trace[i].open = "unread"

====
